---- MODULE Spec2Model ----
(***************************************************************************)
(* Model of src/src/buffer.rs: the OpenAL buffer wrapper `Buffer`, its     *)
(* PropertiesContainer implementations, data upload, loop points and Drop, *)
(* run by client threads against a native layer with one global current    *)
(* context, one error register per context and one context lock.           *)
(***************************************************************************)
EXTENDS Integers, Sequences, FiniteSets, TLC

\* ------------------------------------------------------------------ bounds
MaxBuffers == 2
MaxRate == 2
MaxLoopPoint == 1

\* ------------------------------------------------------------- the universe
Threads == {"t1", "t2"}
Contexts == {"ctxA", "ctxB"}
NoThread == "none"
NoContext == "none"
Buffers == 1..MaxBuffers
Rates == 1..MaxRate
LoopValues == 0..MaxLoopPoint
PayloadLens == {4, 536870912}
Encodings == {"I8", "I16", "F32", "F64"}
ChannelsValues == {"Mono", "Stereo"}
Shapes == {"f32", "f32x3", "i32"}

\* The capability set of each context (has_extension).
Extensions(c) ==
  IF c = "ctxA" THEN {"AL_EXT_float32", "AL_SOFT_loop_points"} ELSE {"AL_double"}

\* ------------------------------------------------- native constants (names)
AL_NO_ERROR == "AL_NO_ERROR"
AL_INVALID_NAME == "AL_INVALID_NAME"
AL_INVALID_ENUM == "AL_INVALID_ENUM"
AL_INVALID_VALUE == "AL_INVALID_VALUE"
AL_OUT_OF_MEMORY == "AL_OUT_OF_MEMORY"

AL_FREQUENCY == "AL_FREQUENCY"
AL_SIZE == "AL_SIZE"
AL_BITS == "AL_BITS"
AL_CHANNELS == "AL_CHANNELS"
AL_LOOP_POINTS_SOFT == "AL_LOOP_POINTS_SOFT"
Params == {AL_FREQUENCY, AL_SIZE, AL_BITS, AL_CHANNELS}

AL_FORMAT_MONO8 == "AL_FORMAT_MONO8"
AL_FORMAT_MONO16 == "AL_FORMAT_MONO16"
AL_FORMAT_STEREO8 == "AL_FORMAT_STEREO8"
AL_FORMAT_STEREO16 == "AL_FORMAT_STEREO16"
AL_FORMAT_MONO_FLOAT32 == "AL_FORMAT_MONO_FLOAT32"
AL_FORMAT_STEREO_FLOAT32 == "AL_FORMAT_STEREO_FLOAT32"
AL_FORMAT_MONO_DOUBLE_EXT == "AL_FORMAT_MONO_DOUBLE_EXT"
AL_FORMAT_STEREO_DOUBLE_EXT == "AL_FORMAT_STEREO_DOUBLE_EXT"

\* ------------------------------------------------------------ result values
Ok(v) == [tag |-> "Ok", val |-> v]
Err(e) == [tag |-> "Err", val |-> e]
Panic == [tag |-> "Panic", val |-> "panic"]
Pending == [tag |-> "Pending", val |-> "pending"]
Unit == "unit"
Dropped(e) == [tag |-> "Dropped", val |-> e]
MissingExtension == "MissingExtension"

\* ------------------------------------------------------------ pure functions

\* #[derive(FromPrimitive)] on Channels: the discriminants are 0 and 1.
Channels_from_i32(n) ==
  IF n = 0 THEN "Mono" ELSE IF n = 1 THEN "Stereo" ELSE "None"

\* size_of::<T>() of the payload's element type.
ElementWidth(enc) ==
  CASE enc = "I8" -> 1 [] enc = "I16" -> 2 [] enc = "F32" -> 4 [] enc = "F64" -> 8

\* `data.size() as i32`: element width x element count, truncated to 32 bits
\* and read as a signed value.  len < 2^31; computed without leaving the
\* 32-bit range: len * w = q * 2^31 + r * w with half = 2^31 / w.
SizeAsI32(enc, len) ==
  LET w == ElementWidth(enc) IN
    IF w = 1 THEN len
    ELSE LET half == 1073741824 \div (w \div 2)
             r == len % half
             q == len \div half
         IN IF q % 2 = 0 THEN r * w ELSE (r - half) * w

\* The format resolved by the match of Buffer::data.
ResolveFormat(enc, ch) ==
  CASE enc = "I8" -> (IF ch = "Mono" THEN AL_FORMAT_MONO8 ELSE AL_FORMAT_MONO16)
    [] enc = "I16" -> (IF ch = "Mono" THEN AL_FORMAT_MONO16 ELSE AL_FORMAT_STEREO16)
    [] enc = "F32" ->
         (IF ch = "Mono" THEN AL_FORMAT_MONO_FLOAT32 ELSE AL_FORMAT_STEREO_FLOAT32)
    [] enc = "F64" ->
         (IF ch = "Mono" THEN AL_FORMAT_MONO_DOUBLE_EXT ELSE AL_FORMAT_STEREO_DOUBLE_EXT)

\* The extension Buffer::data asks for before resolving a float format.
RequiredExtension(enc) ==
  CASE enc = "F32" -> "AL_EXT_float32"
    [] enc = "F64" -> "AL_double"
    [] OTHER -> "none"

\* ------------------------------------------------ the native layer's tables
FormatChannels(fmt) ==
  IF fmt \in {AL_FORMAT_MONO8, AL_FORMAT_MONO16, AL_FORMAT_MONO_FLOAT32,
              AL_FORMAT_MONO_DOUBLE_EXT}
  THEN 1 ELSE 2

FormatBits(fmt) ==
  CASE fmt \in {AL_FORMAT_MONO8, AL_FORMAT_STEREO8} -> 8
    [] fmt \in {AL_FORMAT_MONO16, AL_FORMAT_STEREO16} -> 16
    [] fmt \in {AL_FORMAT_MONO_FLOAT32, AL_FORMAT_STEREO_FLOAT32} -> 32
    [] OTHER -> 64

\* A name the native layer has not generated, or a generated one before upload.
FreeName ==
  [alloc |-> FALSE, format |-> AL_FORMAT_MONO16, frequency |-> 0, size |-> 0,
   loop |-> <<0, 0>>]
FreshName == [FreeName EXCEPT !.alloc = TRUE]

\* ------------------------------------------------------------------- state
VARIABLES
  pc,          \* pc[t]: where thread t stands in the operation it runs
  op,          \* op[t]: the operation of t, its arguments and its locals
  ret,         \* ret[t]: what the last operation of t returned
  panicked,    \* the threads that panicked (they only unwind: drop)
  lock,        \* the thread holding the context lock, or NoThread
  current,     \* the native layer's current context
  err,         \* err[c]: the native error register of context c
  buffers,     \* buffers[b]: the b-th Buffer::new call and the value it made
  al,          \* al[c][h]: the native buffer named h in context c
  deleteCalls, \* deleteCalls[b]: alDeleteBuffers calls issued for Buffer b
  lastData,    \* lastData[b]: (channels, rate) of the last data() that was Ok
  lastLoop     \* lastLoop[b]: argument of the last set_loop_points that was Ok

vars ==
  <<pc, op, ret, panicked, lock, current, err, buffers, al, deleteCalls,
    lastData, lastLoop>>

NoOp ==
  [name |-> "none", buf |-> 0, shape |-> "none", param |-> "none",
   enc |-> "none", len |-> 0, channels |-> "none", rate |-> 0,
   value |-> <<0, 0>>, format |-> "none", size |-> 0, result |-> 0]

NoBuffer ==
  [st |-> "none", handle |-> 0, context |-> NoContext, owner |-> NoThread]
\* A Buffer value after its drop: its fields are gone.
DroppedBuffer == [NoBuffer EXCEPT !.st = "dropped"]

\* No successful call so far.
None == <<>>

InitRest ==
  /\ op = [t \in Threads |-> NoOp]
  /\ ret = [t \in Threads |-> Pending]
  /\ panicked = {}
  /\ lock = NoThread
  /\ current = NoContext
  /\ err = [c \in Contexts |-> AL_NO_ERROR]
  /\ buffers = [b \in Buffers |-> NoBuffer]
  /\ al = [c \in Contexts |-> [h \in Buffers |-> FreeName]]
  /\ deleteCalls = [b \in Buffers |-> 0]
  /\ lastData = [b \in Buffers |-> None]
  /\ lastLoop = [b \in Buffers |-> None]

\* Two client threads, no buffer made yet.
Init ==
  /\ pc = [t \in Threads |-> "idle"]
  /\ InitRest

\* A program with a single client thread: the second thread never starts.
InitSeq ==
  /\ pc = [t \in Threads |-> IF t = "t1" THEN "idle" ELSE "off"]
  /\ InitRest

\* ------------------------------------------------- collaborators' interface

\* check_al_extension(name): the capability query, answered by the context
\* that is current when it is asked.
check_al_extension(name) == name \in Extensions(current)

\* check_al_error(): reads the error register of the current context ...
check_al_error == err[current]
\* ... and clears it.
Drained == [err EXCEPT ![current] = AL_NO_ERROR]

\* A failing native call records its error unless one is already pending.
SetError(e) == [err EXCEPT ![current] = IF @ = AL_NO_ERROR THEN e ELSE @]

\* The name h denotes a generated buffer of the current context.
NameValid(h) == h \in Buffers /\ al[current][h].alloc

\* A thread that may start an operation on Buffer b: its owner, not unwinding.
CanUse(t, b) ==
  /\ pc[t] = "idle"
  /\ t \notin panicked
  /\ buffers[b].st = "live"
  /\ buffers[b].owner = t

Begin(t, o) ==
  /\ op' = [op EXCEPT ![t] = o]
  /\ ret' = [ret EXCEPT ![t] = Pending]

\* Return r from the operation of t: its arguments and locals are gone, the
\* caller holds r; the scoped guard `_lock`, if this
\* thread holds it, is dropped.
Return(t, r) ==
  /\ ret' = [ret EXCEPT ![t] = r]
  /\ op' = [op EXCEPT ![t] = NoOp]
  /\ pc' = [pc EXCEPT ![t] = "idle"]
  /\ lock' = IF lock = t THEN NoThread ELSE lock

\* Context::make_current(): blocks until the lock is free, takes it and makes
\* the context of the operation's buffer current.
make_current(t) ==
  /\ pc[t] = "make_current"
  /\ lock = NoThread
  /\ lock' = t
  /\ current' = buffers[op[t].buf].context
  /\ pc' = [pc EXCEPT ![t] = IF op[t].name = "data" THEN "format" ELSE "call"]
  /\ UNCHANGED <<op, ret, panicked, err, buffers, al, deleteCalls, lastData,
                 lastLoop>>

\* ------------------------------------------------------------ Buffer::new

\* Buffer::new(context): `let mut handle = 0`, then make_current.  A client
\* thread works on one Buffer at a time: it drops the one it has before it
\* makes the next.
new(t, c) ==
  /\ pc[t] = "idle"
  /\ t \notin panicked
  /\ \A b \in Buffers : ~(buffers[b].owner = t /\ buffers[b].st = "live")
  /\ \E b \in Buffers :
       /\ buffers[b].st = "none"
       /\ \A b2 \in Buffers : b2 < b => buffers[b2].st # "none"
       /\ buffers' = [buffers EXCEPT ![b] =
             [st |-> "creating", handle |-> 0, context |-> c, owner |-> t]]
       /\ Begin(t, [NoOp EXCEPT !.name = "new", !.buf = b])
  /\ pc' = [pc EXCEPT ![t] = "make_current"]
  /\ UNCHANGED <<panicked, lock, current, err, al, deleteCalls, lastData, lastLoop>>

\* alGenBuffers(1, &mut handle) under the lock; `_lock` is a local of the
\* unsafe block and is dropped where the block ends, before check_al_error.
new_alGenBuffers(t) ==
  /\ pc[t] = "call"
  /\ op[t].name = "new"
  /\ LET b == op[t].buf
         free == {h \in Buffers : ~al[current][h].alloc}
     IN \E ok \in BOOLEAN :
          IF ok /\ free # {}
          THEN LET h == CHOOSE x \in free : \A y \in free : x <= y IN
                 /\ al' = [al EXCEPT ![current][h] = FreshName]
                 /\ buffers' = [buffers EXCEPT ![b].handle = h]
                 /\ err' = err
          ELSE /\ err' = SetError(AL_OUT_OF_MEMORY)
               /\ UNCHANGED <<al, buffers>>
  /\ lock' = NoThread
  /\ pc' = [pc EXCEPT ![t] = "check"]
  /\ UNCHANGED <<op, ret, panicked, current, deleteCalls, lastData, lastLoop>>

\* check_al_error()?; Ok(Self { handle, context })
new_check(t) ==
  /\ pc[t] = "check"
  /\ op[t].name = "new"
  /\ LET e == check_al_error
         b == op[t].buf
     IN /\ err' = Drained
        /\ IF e = AL_NO_ERROR
           THEN /\ buffers' = [buffers EXCEPT ![b].st = "live"]
                /\ Return(t, Ok(Unit))
           ELSE /\ buffers' = [buffers EXCEPT ![b].st = "failed"]
                /\ Return(t, Err(e))
  /\ UNCHANGED <<panicked, current, al, deleteCalls, lastData, lastLoop>>

\* ---------------------------------------------------- PropertiesContainer

\* PropertiesContainer<f32 | [f32; 3] | i32>::get(&self, param)
PropertiesContainer_get(t, b, shape, param) ==
  /\ CanUse(t, b)
  /\ Begin(t, [NoOp EXCEPT !.name = "get", !.buf = b, !.shape = shape,
                           !.param = param])
  /\ pc' = [pc EXCEPT ![t] = "make_current"]
  /\ UNCHANGED <<panicked, lock, current, err, buffers, al, deleteCalls,
                 lastData, lastLoop>>

\* What alGetBufferi stores for a parameter of a valid name.
IntegerProperty(name, param) ==
  CASE param = AL_FREQUENCY -> name.frequency
    [] param = AL_SIZE -> name.size
    [] param = AL_BITS -> FormatBits(name.format)
    [] param = AL_CHANNELS -> FormatChannels(name.format)

\* alGetBufferf / alGetBuffer3f / alGetBufferi(self.handle, param, &mut value):
\* `value` keeps its initial 0 when the native call fails.
get_call(t) ==
  /\ pc[t] = "call"
  /\ op[t].name \in {"get", "get_channels"}
  /\ LET h == buffers[op[t].buf].handle IN
       IF ~NameValid(h)
       THEN /\ err' = SetError(AL_INVALID_NAME)
            /\ op' = op
       ELSE IF op[t].shape = "i32"
       THEN /\ err' = err
            /\ op' = [op EXCEPT ![t].result =
                        IntegerProperty(al[current][h], op[t].param)]
       ELSE \E supported \in BOOLEAN :
              /\ err' = IF supported THEN err ELSE SetError(AL_INVALID_ENUM)
              /\ op' = op
  /\ pc' = [pc EXCEPT ![t] = "check"]
  /\ UNCHANGED <<ret, panicked, lock, current, buffers, al, deleteCalls,
                 lastData, lastLoop>>

\* check_al_error()?; Ok(result)
get_check(t) ==
  /\ pc[t] = "check"
  /\ op[t].name = "get"
  /\ LET e == check_al_error IN
       /\ err' = Drained
       /\ Return(t, IF e = AL_NO_ERROR THEN Ok(op[t].result) ELSE Err(e))
  /\ UNCHANGED <<panicked, current, buffers, al, deleteCalls, lastData,
                 lastLoop>>

\* PropertiesContainer<f32 | [f32; 3] | i32>::set(&self, param, value)
PropertiesContainer_set(t, b, shape, param) ==
  /\ CanUse(t, b)
  /\ Begin(t, [NoOp EXCEPT !.name = "set", !.buf = b, !.shape = shape,
                           !.param = param])
  /\ pc' = [pc EXCEPT ![t] = "make_current"]
  /\ UNCHANGED <<panicked, lock, current, err, buffers, al, deleteCalls,
                 lastData, lastLoop>>

\* alBufferf / alBuffer3f / alBufferi(self.handle, param, value): none of the
\* modelled parameters is writable state of the model; the call may be refused.
set_call(t) ==
  /\ pc[t] = "call"
  /\ op[t].name = "set"
  /\ LET h == buffers[op[t].buf].handle IN
       IF ~NameValid(h)
       THEN err' = SetError(AL_INVALID_NAME)
       ELSE \E supported \in BOOLEAN :
              err' = IF supported THEN err ELSE SetError(AL_INVALID_ENUM)
  /\ pc' = [pc EXCEPT ![t] = "check"]
  /\ UNCHANGED <<op, ret, panicked, lock, current, buffers, al, deleteCalls,
                 lastData, lastLoop>>

\* check_al_error()?; Ok(())
set_check(t) ==
  /\ pc[t] = "check"
  /\ op[t].name = "set"
  /\ LET e == check_al_error IN
       /\ err' = Drained
       /\ Return(t, IF e = AL_NO_ERROR THEN Ok(Unit) ELSE Err(e))
  /\ UNCHANGED <<panicked, current, buffers, al, deleteCalls, lastData,
                 lastLoop>>

\* PropertiesContainer<Channels>::get(&self, param): the i32 get, decoded.
Channels_get(t, b, param) ==
  /\ CanUse(t, b)
  /\ Begin(t, [NoOp EXCEPT !.name = "get_channels", !.buf = b, !.shape = "i32",
                           !.param = param])
  /\ pc' = [pc EXCEPT ![t] = "make_current"]
  /\ UNCHANGED <<panicked, lock, current, err, buffers, al, deleteCalls,
                 lastData, lastLoop>>

\* Ok(FromPrimitive::from_i32(PropertiesContainer::<i32>::get(self, param)?)
\*      .unwrap())
Channels_get_check(t) ==
  /\ pc[t] = "check"
  /\ op[t].name = "get_channels"
  /\ LET e == check_al_error
         decoded == Channels_from_i32(op[t].result)
     IN /\ err' = Drained
        /\ IF e # AL_NO_ERROR
           THEN Return(t, Err(e)) /\ panicked' = panicked
           ELSE IF decoded = "None"
           THEN Return(t, Panic) /\ panicked' = panicked \cup {t}
           ELSE Return(t, Ok(decoded)) /\ panicked' = panicked
  /\ UNCHANGED <<current, buffers, al, deleteCalls, lastData, lastLoop>>

\* PropertiesContainer<Channels>::set(&self, _param, _value)
Channels_set(t, b, param, value) ==
  /\ CanUse(t, b)
  /\ Begin(t, [NoOp EXCEPT !.name = "set_channels", !.buf = b,
                           !.param = param, !.channels = value])
  /\ pc' = [pc EXCEPT ![t] = "body"]
  /\ UNCHANGED <<panicked, lock, current, err, buffers, al, deleteCalls,
                 lastData, lastLoop>>

\* Its body: `// AL_CHANNELS does not support writing.` unimplemented!()
Channels_set_body(t) ==
  /\ pc[t] = "body"
  /\ op[t].name = "set_channels"
  /\ Return(t, Panic)
  /\ panicked' = panicked \cup {t}
  /\ UNCHANGED <<current, err, buffers, al, deleteCalls, lastData, lastLoop>>

\* ----------------------------------------------------------- Buffer::data

\* Buffer::data(&self, data, channels, sample_rate)
data(t, b, enc, len, channels, sample_rate) ==
  /\ CanUse(t, b)
  /\ Begin(t, [NoOp EXCEPT !.name = "data", !.buf = b, !.enc = enc, !.len = len,
                           !.channels = channels, !.rate = sample_rate])
  /\ pc' = [pc EXCEPT ![t] = "make_current"]
  /\ UNCHANGED <<panicked, lock, current, err, buffers, al, deleteCalls,
                 lastData, lastLoop>>

\* Variant: the early return keeps the guard (as if it were leaked).
data_format_guard_kept(t) ==
  /\ pc[t] = "format"
  /\ op[t].name = "data"
  /\ LET ext == RequiredExtension(op[t].enc) IN
       IF ext # "none" /\ ~check_al_extension(ext)
       THEN /\ ret' = [ret EXCEPT ![t] = Err(MissingExtension)]
            /\ op' = [op EXCEPT ![t] = NoOp]
            /\ pc' = [pc EXCEPT ![t] = "idle"]
            /\ lock' = lock
       ELSE /\ op' = [op EXCEPT ![t].format =
                        ResolveFormat(op[t].enc, op[t].channels)]
            /\ pc' = [pc EXCEPT ![t] = "call"]
            /\ UNCHANGED <<ret, lock>>
  /\ UNCHANGED <<panicked, current, err, buffers, al, deleteCalls, lastData,
                 lastLoop>>

\* Variant: the float arms without their extension check.
data_format_unchecked(t) ==
  /\ pc[t] = "format"
  /\ op[t].name = "data"
  /\ op' = [op EXCEPT ![t].format = ResolveFormat(op[t].enc, op[t].channels)]
  /\ pc' = [pc EXCEPT ![t] = "call"]
  /\ UNCHANGED <<ret, lock, panicked, current, err, buffers, al, deleteCalls,
                 lastData, lastLoop>>

\* `let format = match data { ... }`, with check_al_extension(..)? in the
\* F32 and F64 arms.
data_format(t) ==
  /\ pc[t] = "format"
  /\ op[t].name = "data"
  /\ LET ext == RequiredExtension(op[t].enc) IN
       IF ext # "none" /\ ~check_al_extension(ext)
       THEN Return(t, Err(MissingExtension))
       ELSE /\ op' = [op EXCEPT ![t].format =
                        ResolveFormat(op[t].enc, op[t].channels)]
            /\ pc' = [pc EXCEPT ![t] = "call"]
            /\ UNCHANGED <<ret, lock>>
  /\ UNCHANGED <<panicked, current, err, buffers, al, deleteCalls, lastData,
                 lastLoop>>

\* Bytes of one sample frame of a format.
FrameSize(fmt) == FormatChannels(fmt) * (FormatBits(fmt) \div 8)

\* The native alBufferData(handle, format, ptr, size, freq) called by thread
\* t: replaces format, size and frequency of the name, or is refused (bad
\* name, bad size or frequency, no memory) and changes nothing.
alBufferData(t, handle, format, size, freq) ==
  /\ op' = [op EXCEPT ![t].size = size]
  /\ IF ~NameValid(handle)
     THEN err' = SetError(AL_INVALID_NAME) /\ al' = al
     ELSE IF size < 0 \/ freq < 0 \/ size % FrameSize(format) # 0
     THEN err' = SetError(AL_INVALID_VALUE) /\ al' = al
     ELSE \E ok \in BOOLEAN :
            IF ok
            THEN /\ al' = [al EXCEPT ![current][handle] =
                             [@ EXCEPT !.format = format, !.size = size,
                                       !.frequency = freq]]
                 /\ err' = err
            ELSE err' = SetError(AL_OUT_OF_MEMORY) /\ al' = al
  /\ pc' = [pc EXCEPT ![t] = "check"]
  /\ UNCHANGED <<ret, panicked, current, buffers, deleteCalls, lastData,
                 lastLoop>>

\* Variant: the guard scoped to the native call alone, as in Buffer::new.
data_alBufferData_guard_dropped(t) ==
  /\ pc[t] = "call"
  /\ op[t].name = "data"
  /\ alBufferData(t, buffers[op[t].buf].handle, op[t].format,
                  SizeAsI32(op[t].enc, op[t].len), op[t].rate)
  /\ lock' = NoThread

\* Variant: the last two arguments in the wrong order.
data_alBufferData_swapped(t) ==
  /\ pc[t] = "call"
  /\ op[t].name = "data"
  /\ alBufferData(t, buffers[op[t].buf].handle, op[t].format,
                  op[t].rate, SizeAsI32(op[t].enc, op[t].len))
  /\ lock' = lock

\* unsafe { alBufferData(self.handle, format, data.ptr(), data.size() as i32,
\* sample_rate) }; `_lock` lives to the end of the function.
data_alBufferData(t) ==
  /\ pc[t] = "call"
  /\ op[t].name = "data"
  /\ alBufferData(t, buffers[op[t].buf].handle, op[t].format,
                  SizeAsI32(op[t].enc, op[t].len), op[t].rate)
  /\ lock' = lock

\* Variant: a refused upload forgets the handle.
data_check_handle_reset(t) ==
  /\ pc[t] = "check"
  /\ op[t].name = "data"
  /\ LET e == check_al_error IN
       /\ err' = Drained
       /\ Return(t, IF e = AL_NO_ERROR THEN Ok(Unit) ELSE Err(e))
       /\ lastData' = IF e = AL_NO_ERROR
                       THEN [lastData EXCEPT ![op[t].buf] =
                               <<op[t].channels, op[t].rate>>]
                       ELSE lastData
       /\ buffers' = IF e = AL_NO_ERROR THEN buffers
                      ELSE [buffers EXCEPT ![op[t].buf].handle = 0]
  /\ UNCHANGED <<panicked, current, al, deleteCalls, lastLoop>>

\* check_al_error()
data_check(t) ==
  /\ pc[t] = "check"
  /\ op[t].name = "data"
  /\ LET e == check_al_error IN
       /\ err' = Drained
       /\ Return(t, IF e = AL_NO_ERROR THEN Ok(Unit) ELSE Err(e))
       /\ lastData' = IF e = AL_NO_ERROR
                       THEN [lastData EXCEPT ![op[t].buf] =
                               <<op[t].channels, op[t].rate>>]
                       ELSE lastData
  /\ UNCHANGED <<panicked, current, buffers, al, deleteCalls, lastLoop>>

\* ------------------------------------------------------------ Buffer::handle

\* pub fn handle(&self) -> u32 { self.handle }
Buffer_handle(b) == buffers[b].handle

\* ------------------------------------------------------------ the getters

\* getter!(name, i32, param): PropertiesContainer::<i32>::get(self, param)
getter(t, b, param) == PropertiesContainer_get(t, b, "i32", param)
\* getter!(frequency, i32, AL_FREQUENCY)
frequency(t, b) == getter(t, b, AL_FREQUENCY)
\* getter!(size, i32, AL_SIZE)
size(t, b) == getter(t, b, AL_SIZE)
\* getter!(bits, i32, AL_BITS)
bits(t, b) == getter(t, b, AL_BITS)
\* getter!(channels, Channels, AL_CHANNELS)
channels(t, b) == Channels_get(t, b, AL_CHANNELS)

\* ------------------------------------------------------------ loop points

\* Buffer::loop_points(&self)
loop_points(t, b) ==
  /\ CanUse(t, b)
  /\ Begin(t, [NoOp EXCEPT !.name = "loop_points", !.buf = b])
  /\ pc' = [pc EXCEPT ![t] = "ext"]
  /\ UNCHANGED <<panicked, lock, current, err, buffers, al, deleteCalls,
                 lastData, lastLoop>>

\* Variant: the lock taken first, the extension left to the native call.
loop_points_ext_after_lock(t) ==
  /\ pc[t] = "ext"
  /\ op[t].name = "loop_points"
  /\ pc' = [pc EXCEPT ![t] = "make_current"]
  /\ UNCHANGED <<op, ret, lock, panicked, current, err, buffers, al,
                 deleteCalls, lastData, lastLoop>>

\* check_al_extension(&CString::new("AL_SOFT_loop_points").unwrap())?; comes
\* first, before the lock is taken.
loop_points_ext(t) ==
  /\ pc[t] = "ext"
  /\ op[t].name = "loop_points"
  /\ IF check_al_extension("AL_SOFT_loop_points")
     THEN /\ pc' = [pc EXCEPT ![t] = "make_current"]
          /\ UNCHANGED <<op, ret, lock>>
     ELSE Return(t, Err(MissingExtension))
  /\ UNCHANGED <<panicked, current, err, buffers, al, deleteCalls, lastData,
                 lastLoop>>

\* alGetBufferiv(self.handle, AL_LOOP_POINTS_SOFT, value.as_mut_ptr()):
\* `value` keeps [0, 0] when the call fails.
loop_points_call(t) ==
  /\ pc[t] = "call"
  /\ op[t].name = "loop_points"
  /\ LET h == buffers[op[t].buf].handle IN
       IF ~NameValid(h)
       THEN err' = SetError(AL_INVALID_NAME) /\ op' = op
       ELSE IF "AL_SOFT_loop_points" \notin Extensions(current)
       THEN err' = SetError(AL_INVALID_ENUM) /\ op' = op
       ELSE err' = err /\ op' = [op EXCEPT ![t].value = al[current][h].loop]
  /\ pc' = [pc EXCEPT ![t] = "check"]
  /\ UNCHANGED <<ret, panicked, lock, current, buffers, al, deleteCalls,
                 lastData, lastLoop>>

\* check_al_error()?; Ok(result)
loop_points_check(t) ==
  /\ pc[t] = "check"
  /\ op[t].name = "loop_points"
  /\ LET e == check_al_error IN
       /\ err' = Drained
       /\ Return(t, IF e = AL_NO_ERROR THEN Ok(op[t].value) ELSE Err(e))
  /\ UNCHANGED <<panicked, current, buffers, al, deleteCalls, lastData,
                 lastLoop>>

\* Buffer::set_loop_points(&self, value)
set_loop_points(t, b, value) ==
  /\ CanUse(t, b)
  /\ Begin(t, [NoOp EXCEPT !.name = "set_loop_points", !.buf = b,
                           !.value = value])
  /\ pc' = [pc EXCEPT ![t] = "ext"]
  /\ UNCHANGED <<panicked, lock, current, err, buffers, al, deleteCalls,
                 lastData, lastLoop>>

\* check_al_extension(&CString::new("AL_SOFT_loop_points").unwrap())?;
set_loop_points_ext(t) ==
  /\ pc[t] = "ext"
  /\ op[t].name = "set_loop_points"
  /\ IF check_al_extension("AL_SOFT_loop_points")
     THEN /\ pc' = [pc EXCEPT ![t] = "make_current"]
          /\ UNCHANGED <<op, ret, lock>>
     ELSE Return(t, Err(MissingExtension))
  /\ UNCHANGED <<panicked, current, err, buffers, al, deleteCalls, lastData,
                 lastLoop>>

\* The native alBufferiv(handle, AL_LOOP_POINTS_SOFT, [start, end]) called by
\* thread t: stores the two integers, or is refused and changes nothing.
alBufferiv(t, handle, start, end) ==
  /\ IF ~NameValid(handle)
     THEN err' = SetError(AL_INVALID_NAME) /\ al' = al
     ELSE IF "AL_SOFT_loop_points" \notin Extensions(current)
     THEN err' = SetError(AL_INVALID_ENUM) /\ al' = al
     ELSE \E ok \in BOOLEAN :
            IF ok
            THEN /\ al' = [al EXCEPT ![current][handle].loop = <<start, end>>]
                 /\ err' = err
            ELSE err' = SetError(AL_INVALID_VALUE) /\ al' = al
  /\ pc' = [pc EXCEPT ![t] = "check"]
  /\ UNCHANGED <<op, ret, panicked, lock, current, buffers, deleteCalls,
                 lastData, lastLoop>>

\* Variant: end before start.
set_loop_points_call_swapped(t) ==
  /\ pc[t] = "call"
  /\ op[t].name = "set_loop_points"
  /\ alBufferiv(t, buffers[op[t].buf].handle, op[t].value[2], op[t].value[1])

\* unsafe { alBufferiv(self.handle, AL_LOOP_POINTS_SOFT, value.as_ptr()) }
set_loop_points_call(t) ==
  /\ pc[t] = "call"
  /\ op[t].name = "set_loop_points"
  /\ alBufferiv(t, buffers[op[t].buf].handle, op[t].value[1], op[t].value[2])

\* check_al_error()?; Ok(())
set_loop_points_check(t) ==
  /\ pc[t] = "check"
  /\ op[t].name = "set_loop_points"
  /\ LET e == check_al_error IN
       /\ err' = Drained
       /\ Return(t, IF e = AL_NO_ERROR THEN Ok(Unit) ELSE Err(e))
       /\ lastLoop' = IF e = AL_NO_ERROR
                       THEN [lastLoop EXCEPT ![op[t].buf] = op[t].value]
                       ELSE lastLoop
  /\ UNCHANGED <<panicked, current, buffers, al, deleteCalls, lastData>>

\* --------------------------------------------------------- Drop for Buffer

\* drop(&mut self): alDeleteBuffers(1, &self.handle), with no make_current.
\* Name 0 is always accepted; a name of the current context is released; any
\* other name is refused.
drop(t, b) ==
  /\ pc[t] = "idle"
  /\ buffers[b].st = "live"
  /\ buffers[b].owner = t
  /\ LET h == buffers[b].handle IN
       IF h = 0
       THEN UNCHANGED <<err, al>>
       ELSE IF ~NameValid(h)
       THEN err' = SetError(AL_INVALID_NAME) /\ al' = al
       ELSE al' = [al EXCEPT ![current][h] = FreeName] /\ err' = err
  /\ buffers' = [buffers EXCEPT ![b].st = "dropping"]
  /\ deleteCalls' = [deleteCalls EXCEPT ![b] = @ + 1]
  /\ lastData' = [lastData EXCEPT ![b] = None]
  /\ lastLoop' = [lastLoop EXCEPT ![b] = None]
  /\ Begin(t, [NoOp EXCEPT !.name = "drop", !.buf = b])
  /\ pc' = [pc EXCEPT ![t] = "check"]
  /\ UNCHANGED <<panicked, lock, current>>

\* Variant: a failed release is tried again.
drop_check_retrying(t) ==
  /\ pc[t] = "check"
  /\ op[t].name = "drop"
  /\ LET e == check_al_error IN
       /\ err' = Drained
       /\ Return(t, Dropped(e))
       /\ deleteCalls' = IF e = AL_NO_ERROR THEN deleteCalls
                          ELSE [deleteCalls EXCEPT ![op[t].buf] = @ + 1]
  /\ buffers' = [buffers EXCEPT ![op[t].buf] = DroppedBuffer]
  /\ UNCHANGED <<panicked, current, al, lastData, lastLoop>>

\* if let Err(err) = check_al_error() { println!(..) }: drop returns (),
\* and Dropped(e) records the diagnostic it printed, if any.
drop_check(t) ==
  /\ pc[t] = "check"
  /\ op[t].name = "drop"
  /\ LET e == check_al_error IN
       /\ err' = Drained
       /\ Return(t, Dropped(e))
  /\ buffers' = [buffers EXCEPT ![op[t].buf] = DroppedBuffer]
  /\ UNCHANGED <<panicked, current, al, deleteCalls, lastData, lastLoop>>

\* ------------------------------------------------------------ the program

\* The arguments client threads pass, by experiment.
\* Uploads and getters in full, one loop-point pair, one scalar shape.
DataInputs ==
  [enc |-> Encodings, len |-> PayloadLens, channels |-> ChannelsValues,
   rate |-> Rates, loop |-> {<<0, 1>>},
   getShape |-> {"f32"}, setShape |-> {"i32"}, param |-> {AL_FREQUENCY},
   getter |-> {AL_FREQUENCY, AL_SIZE, AL_BITS}]

\* Loop points and the scalar shapes in full, one upload.
LoopInputs ==
  [enc |-> {"I16"}, len |-> {4}, channels |-> {"Stereo"}, rate |-> {1},
   loop |-> LoopValues \X LoopValues,
   getShape |-> {"f32", "f32x3"}, setShape |-> Shapes, param |-> Params,
   getter |-> {AL_FREQUENCY}]

\* Two threads: one argument of each kind, F32 for the extension gate.
RaceInputs ==
  [enc |-> {"I16", "F32"}, len |-> {4}, channels |-> {"Mono"},
   rate |-> {1}, loop |-> {<<0, 1>>},
   getShape |-> {"f32"}, setShape |-> {"i32"}, param |-> {AL_FREQUENCY},
   getter |-> {AL_FREQUENCY}]

Step(I) ==
  \E t \in Threads :
    \/ \E c \in Contexts : new(t, c)
    \/ make_current(t)
    \/ new_alGenBuffers(t)
    \/ new_check(t)
    \/ \E b \in Buffers, shape \in I.getShape, param \in I.param :
         PropertiesContainer_get(t, b, shape, param)
    \/ get_call(t)
    \/ get_check(t)
    \/ \E b \in Buffers, shape \in I.setShape, param \in I.param :
         PropertiesContainer_set(t, b, shape, param)
    \/ set_call(t)
    \/ set_check(t)
    \/ \E b \in Buffers, param \in I.getter : getter(t, b, param)
    \/ \E b \in Buffers : channels(t, b)
    \/ Channels_get_check(t)
    \/ \E b \in Buffers, value \in I.channels : Channels_set(t, b, AL_CHANNELS, value)
    \/ Channels_set_body(t)
    \/ \E b \in Buffers, enc \in I.enc, len \in I.len, ch \in I.channels,
          rate \in I.rate : data(t, b, enc, len, ch, rate)
    \/ data_format(t)
    \/ data_alBufferData(t)
    \/ data_check(t)
    \/ \E b \in Buffers : loop_points(t, b)
    \/ loop_points_ext(t)
    \/ loop_points_call(t)
    \/ loop_points_check(t)
    \/ \E b \in Buffers, v \in I.loop : set_loop_points(t, b, v)
    \/ set_loop_points_ext(t)
    \/ set_loop_points_call(t)
    \/ set_loop_points_check(t)
    \/ \E b \in Buffers : drop(t, b)
    \/ drop_check(t)

Next == Step(RaceInputs)
NextSeq == Step(DataInputs)
NextLoop == Step(LoopInputs)

\* Two client threads running concurrently.
Spec == Init /\ [][Next]_vars

\* A single client thread, uploads and getters.
SeqSpec == InitSeq /\ [][NextSeq]_vars

\* A single client thread, loop points and scalar parameters.
LoopSpec == InitSeq /\ [][NextLoop]_vars

\* A step of thread t inside an operation it has begun, other than waiting
\* for the lock: a thread that is running keeps running to its return.
Advance(t) ==
  \/ new_alGenBuffers(t) \/ new_check(t)
  \/ get_call(t) \/ get_check(t)
  \/ set_call(t) \/ set_check(t)
  \/ Channels_get_check(t)
  \/ Channels_set_body(t)
  \/ data_format(t) \/ data_alBufferData(t) \/ data_check(t)
  \/ loop_points_ext(t) \/ loop_points_call(t) \/ loop_points_check(t)
  \/ set_loop_points_ext(t) \/ set_loop_points_call(t)
  \/ set_loop_points_check(t)
  \/ drop_check(t)

\* Fair scheduling: running threads advance, and a thread waiting in
\* make_current is not passed over for ever when the lock keeps coming free.
\* Clients are not obliged to begin operations.
Fairness ==
  \A t \in Threads : WF_vars(Advance(t)) /\ SF_vars(make_current(t))

\* Two threads under fair scheduling: one payload, the one that needs an
\* extension.
FairInputs == [RaceInputs EXCEPT !.enc = {"F32"}]

NextFair == Step(FairInputs)

\* Two client threads under fair scheduling.
FairSpec == Init /\ [][NextFair]_vars /\ Fairness

\* ================================================================ claims

\* The format table of the specification (section 4.3).
TableFormat(enc, ch) ==
  CASE enc = "I8" -> (IF ch = "Mono" THEN AL_FORMAT_MONO8 ELSE AL_FORMAT_STEREO16)
    [] enc = "I16" -> (IF ch = "Mono" THEN AL_FORMAT_MONO16 ELSE AL_FORMAT_STEREO16)
    [] enc = "F32" ->
         (IF ch = "Mono" THEN AL_FORMAT_MONO_FLOAT32 ELSE AL_FORMAT_STEREO_FLOAT32)
    [] enc = "F64" ->
         (IF ch = "Mono" THEN AL_FORMAT_MONO_DOUBLE_EXT ELSE AL_FORMAT_STEREO_DOUBLE_EXT)

\* C1: whenever Buffer::data has issued the native upload, the format it
\* passed is the table's entry for (encoding, channels), 8-bit stereo
\* resolving to AL_FORMAT_STEREO16.  The code passes AL_FORMAT_MONO16 there.
C1_FormatIsTableEntry ==
  \A t \in Threads :
    (op[t].name = "data" /\ pc[t] = "check")
      => op[t].format = TableFormat(op[t].enc, op[t].channels)

\* The operations C2 lists; Channels::get runs the i32 get.
LockedOps == {"get", "get_channels", "set", "data", "loop_points", "set_loop_points"}

\* Thread t stands between taking the lock and the end of its error check.
InCallOrCheck(t) == op[t].name \in LockedOps /\ pc[t] \in {"format", "call", "check"}

\* C2: a thread running a get/set, data, loop_points or set_loop_points holds
\* the lock, with its buffer's context current, from before the native call
\* until its error check is done; no two such threads are in that window at
\* once.
C2_LockHeldThroughCallAndCheck ==
  /\ \A t \in Threads :
       InCallOrCheck(t)
         => lock = t /\ current = buffers[op[t].buf].context
  /\ \A t, u \in Threads :
       (t # u /\ InCallOrCheck(t)) => ~InCallOrCheck(u)

\* C2's case: one thread after its native call and before its error check,
\* another blocked in make_current for a buffer of a different context.
C2_Witness ==
  \E t, u \in Threads :
    /\ t # u
    /\ op[t].name \in LockedOps /\ pc[t] = "check"
    /\ op[u].name \in LockedOps /\ pc[u] = "make_current"
    /\ buffers[op[t].buf].context # buffers[op[u].buf].context

\* C3: Buffer::new still holds the lock when it checks the error register.
\* The code drops the guard at the end of the unsafe block, before the check.
C3_NewHoldsLockAtCheck ==
  \A t \in Threads :
    (op[t].name = "new" /\ pc[t] = "check") => lock = t

\* C4: a Buffer value that exists has had no release call, one that was
\* dropped has had exactly one, and a failed Buffer::new has none.
C4_ExactlyOneRelease ==
  \A b \in Buffers :
    /\ buffers[b].st \in {"none", "creating", "failed", "live"}
         => deleteCalls[b] = 0
    /\ buffers[b].st \in {"dropping", "dropped"} => deleteCalls[b] = 1

\* C4's case: a buffer dropped after its release was refused (the diagnostic
\* path), beside a Buffer::new that failed.
C4_Witness ==
  \E t \in Threads, b, b2 \in Buffers :
    /\ buffers[b].st = "dropped"
    /\ deleteCalls[b] = 1
    /\ ret[t].tag = "Dropped"
    /\ ret[t].val = AL_INVALID_NAME
    /\ buffers[b2].st = "failed"

\* C5: channels() after a successful data(_, ch, _) returns Ok(ch).  The code
\* decodes the channel count 1 as Stereo and panics on 2.
C5_ChannelsReturnsUploaded ==
  [][\A t \in Threads :
       (/\ op[t].name = "get_channels"
        /\ pc[t] = "check"
        /\ pc'[t] = "idle"
        /\ lastData[op[t].buf] # None)
         => ret'[t] = Ok(lastData[op[t].buf][1])]_vars

\* C6: frequency() after a successful data(_, _, rate) returns Ok(rate), the
\* rate of the most recent successful upload.  Holds for one client thread
\* (SeqSpec).  With two threads (Spec) a failed alGenBuffers of another
\* thread's Buffer::new, whose error check runs after its guard is gone,
\* leaves its error for frequency() to collect.
C6_FrequencyReturnsUploaded ==
  [][\A t \in Threads :
       (/\ op[t].name = "get"
        /\ op[t].shape = "i32"
        /\ op[t].param = AL_FREQUENCY
        /\ pc[t] = "check"
        /\ pc'[t] = "idle"
        /\ lastData[op[t].buf] # None)
         => /\ ret'[t].tag = "Ok"
            /\ ret'[t].val = lastData[op[t].buf][2]]_vars

\* C6's case: frequency() has read the native value of a buffer after a
\* successful upload at rate MaxRate.
C6_Witness ==
  \E t \in Threads :
    /\ op[t].name = "get"
    /\ op[t].param = AL_FREQUENCY
    /\ op[t].shape = "i32"
    /\ pc[t] = "check"
    /\ lastData[op[t].buf] # None
    /\ lastData[op[t].buf][2] = MaxRate
    /\ op[t].result = MaxRate
    /\ MaxRate > 1

\* The payload of thread t's data() needs an extension its buffer's context
\* does not have.
DataLacksExtension(t) ==
  /\ op[t].name = "data"
  /\ RequiredExtension(op[t].enc) # "none"
  /\ RequiredExtension(op[t].enc) \notin Extensions(buffers[op[t].buf].context)

C8_LoopPointsGate ==
  [][\A t \in Threads :
       (/\ op[t].name \in {"loop_points", "set_loop_points"}
        /\ pc[t] = "ext"
        /\ pc'[t] # "ext"
        /\ ~check_al_extension("AL_SOFT_loop_points"))
         => /\ pc'[t] = "idle"
            /\ ret'[t] = Err(MissingExtension)
            /\ lock' = lock
            /\ current' = current
            /\ al' = al
            /\ err' = err]_vars

\* C8's case: loop_points about to ask for the extension while the current
\* context lacks it and another thread holds the lock.
C8_Witness ==
  \E t \in Threads :
    /\ op[t].name = "loop_points"
    /\ pc[t] = "ext"
    /\ ~check_al_extension("AL_SOFT_loop_points")
    /\ lock \notin {t, NoThread}

\* C9: loop_points(), once past the extension check, returns the pair of the
\* last successful set_loop_points, start and end in the order given.  Holds
\* for one client thread (LoopSpec).  With two threads (Spec) loop_points()
\* collects the error a concurrent Buffer::new left behind, as in C6.
C9_LoopPointsRoundTrip ==
  [][\A t \in Threads :
       (/\ op[t].name = "loop_points"
        /\ pc[t] = "check"
        /\ pc'[t] = "idle"
        /\ lastLoop[op[t].buf] # None)
         => /\ ret'[t].tag = "Ok"
            /\ ret'[t].val = lastLoop[op[t].buf]]_vars

\* C9's case: loop_points() has read the pair back after a successful
\* set_loop_points(&[MaxLoopPoint, 0]), start above end.
C9_Witness ==
  \E t \in Threads :
    /\ op[t].name = "loop_points"
    /\ pc[t] = "check"
    /\ lastLoop[op[t].buf] = <<MaxLoopPoint, 0>>
    /\ op[t].value = <<MaxLoopPoint, 0>>

UnsupportedOperation == "UnsupportedOperation"

\* C10: Channels::set returns an unsupported-operation error to its caller,
\* who goes on, and touches neither the lock nor the native layer.  The code
\* panics (unimplemented!()).
C10_ChannelsSetReturnsError ==
  [][\A t \in Threads :
       (op[t].name = "set_channels" /\ pc[t] = "body" /\ pc'[t] # "body")
         => /\ ret'[t] = Err(UnsupportedOperation)
            /\ t \notin panicked'
            /\ lock' = lock
            /\ al' = al
            /\ err' = err]_vars

\* The names the native layer has generated and not released.
Allocated == {ch \in Contexts \X Buffers : al[ch[1]][ch[2]].alloc}

\* C11: Buffer::new asks the native layer for one name; it then either
\* returns an error and makes no Buffer value (no name is held, no release
\* is ever issued for the call), or returns a Buffer of the given context
\* whose handle is a name generated in that context.  Holds for one client
\* thread (SeqSpec).  With two threads (Spec) the check of Buffer::new, made
\* after its guard is gone, reads the register of whichever context another
\* thread made current: a failed allocation returns Ok with handle 0, and a
\* successful one returns another call's error.
C11_NewAllocatesOrFails ==
  [][\A t \in Threads :
       /\ (op[t].name = "new" /\ pc[t] = "call" /\ pc'[t] = "check")
            => \/ Allocated' = Allocated
               \/ \E ch \in (Contexts \X Buffers) \ Allocated :
                    Allocated' = Allocated \cup {ch}
       /\ (op[t].name = "new" /\ pc[t] = "check" /\ pc'[t] = "idle")
            => LET b == op[t].buf IN
                 \/ /\ ret'[t].tag = "Err"
                    /\ buffers'[b].st = "failed"
                    /\ buffers[b].handle = 0
                    /\ deleteCalls'[b] = 0
                 \/ /\ ret'[t].tag = "Ok"
                    /\ buffers'[b].st = "live"
                    /\ buffers'[b].context = buffers[b].context
                    /\ <<buffers'[b].context, buffers'[b].handle>> \in Allocated']_vars

\* C12: the lock is held only by a thread between make_current and the end
\* of the block its guard lives in, so a thread that has returned - with a
\* value, with the missing-extension error of data(), or with a native
\* error - holds no lock; and under fair scheduling a thread waiting in
\* make_current comes to hold the lock.
C12_LockReleasedOnEveryExit ==
  /\ [](\A t \in Threads :
          /\ pc[t] \in {"idle", "off", "ext", "body", "make_current"} => lock # t
          /\ lock = t => op[t].name \in LockedOps \cup {"new"})
  /\ \A t \in Threads : (pc[t] = "make_current") ~> (lock = t)

\* C12's case: a data() about to take its missing-extension early return
\* with the guard in hand, while the other thread waits in make_current.
C12_Witness ==
  \E t, u \in Threads :
    /\ t # u
    /\ pc[t] = "format"
    /\ DataLacksExtension(t)
    /\ lock = t
    /\ pc[u] = "make_current"

\* C13: the release issued on destruction and the error check after it run
\* while the dropping thread holds the lock and the buffer's own context is
\* current, like every other native call on the buffer's handle.  The code's
\* drop calls alDeleteBuffers and check_al_error without make_current.
C13_DropUnderOwnLock ==
  \A t \in Threads :
    /\ (op[t].name = "drop" /\ pc[t] = "check")
         => lock = t /\ current = buffers[op[t].buf].context
    /\ (InCallOrCheck(t) /\ pc[t] # "format")
         => lock = t /\ current = buffers[op[t].buf].context

\* C14: the byte length Buffer::data hands to the native upload is the
\* element count times the element width, and is not negative, whatever the
\* count.  The code casts the usize product with `as i32`: 2^29 F32 samples
\* are passed as -2^31 bytes, 2^29 F64 samples as 0 bytes.
C14_ByteLengthIsCountTimesWidth ==
  \A t \in Threads :
    (op[t].name = "data" /\ pc[t] = "check")
      => LET w == ElementWidth(op[t].enc) IN
           /\ op[t].size >= 0
           /\ op[t].size % w = 0
           /\ op[t].size \div w = op[t].len

\* C15: the handle of a Buffer value does not change while the value lives,
\* whatever its operations return, and every native call that changes a
\* name - generation, upload, loop points, release - is made by a thread
\* on the name that is the handle of the Buffer the thread is operating on.
C15_HandleImmutable ==
  [][/\ \A b \in Buffers :
          (buffers[b].st = "live" /\ buffers'[b].st \in {"live", "dropping"})
            => Buffer_handle(b)' = Buffer_handle(b)
     /\ \A c \in Contexts, h \in Buffers :
          al'[c][h] # al[c][h]
            => \E t \in Threads :
                 /\ pc'[t] # pc[t]
                 /\ LET b == IF op[t].buf # 0 THEN op[t].buf ELSE op'[t].buf
                    IN b # 0 /\ buffers'[b].handle = h]_vars

\* C15's case: a live Buffer that has had a successful upload and whose last
\* operation failed, still with the name it was created with.
C15_Witness ==
  \E t \in Threads, b \in Buffers :
    /\ buffers[b].st = "live"
    /\ buffers[b].owner = t
    /\ pc[t] = "idle"
    /\ ret[t].tag = "Err"
    /\ lastData[b] # None
    /\ Buffer_handle(b) # 0
    /\ al[buffers[b].context][Buffer_handle(b)].alloc

\* The operations that report to a caller and make a native call.
FallibleOps == LockedOps \cup {"new"}

\* Thread t has made the native call of a fallible operation, and the error
\* register of its buffer's context is set.
ErrorAwaitsCheck(t) ==
  /\ op[t].name \in FallibleOps
  /\ pc[t] = "check"
  /\ err[buffers[op[t].buf].context] # AL_NO_ERROR

\* C16: an error standing in the register after the native call of new,
\* data, get/set, loop_points or set_loop_points is still there when the
\* operation checks, and the operation then returns Err and no value; drop
\* alone turns an error into a diagnostic, and always completes.  Holds for
\* one client thread (SeqSpec).  With two threads (Spec) the unlocked checks
\* of Buffer::new and drop drain the register under an operation that is
\* between its call and its check, which then returns Ok.
C16_ErrorsPropagate ==
  [][\A t \in Threads :
       /\ (ErrorAwaitsCheck(t) /\ pc'[t] = "check")
            => err'[buffers[op[t].buf].context] # AL_NO_ERROR
       /\ (ErrorAwaitsCheck(t) /\ pc'[t] # "check")
            => pc'[t] = "idle" /\ ret'[t].tag = "Err"
       /\ (op[t].name = "drop" /\ pc[t] = "check" /\ pc'[t] # "check")
            => pc'[t] = "idle" /\ ret'[t].tag = "Dropped"]_vars

\* C17: loop_points / set_loop_points on a buffer whose own context lacks
\* AL_SOFT_loop_points never gets as far as the native vector get/set.  The
\* code asks for the extension before make_current, so the answer is that of
\* whichever context a thread made current last.
C17_ExtensionOfOwnContext ==
  \A t \in Threads :
    (op[t].name \in {"loop_points", "set_loop_points"} /\ pc[t] = "check")
      => "AL_SOFT_loop_points" \in Extensions(buffers[op[t].buf].context)

\* The Buffer values (or Buffer::new calls still running) that hold name h of
\* context c.
Owners(c, h) ==
  {b \in Buffers : /\ buffers[b].st \in {"creating", "live"}
                   /\ buffers[b].context = c
                   /\ buffers[b].handle = h}

\* C18: every name the native layer has generated and not released is the
\* handle of exactly one Buffer value (or of the Buffer::new that is making
\* it), and a Buffer::new that failed holds no name.  Holds for one client
\* thread (SeqSpec).  With two threads (Spec) Buffer::new, checking after its
\* guard is gone, returns another call's error for a name it generated, and
\* drop, issued without make_current, has its release refused by the wrong
\* context: the name stays generated with no owner.
C18_NoHandleLeak ==
  /\ \A ch \in Allocated : Cardinality(Owners(ch[1], ch[2])) = 1
  /\ \A b \in Buffers : buffers[b].st = "failed" => buffers[b].handle = 0

====
